---- MODULE Spec2Model ----
(***************************************************************************)
(* Model of one toolapi session: the server-side orchestrator              *)
(* (util.rs: tool_handler), the cross-thread bridge between the            *)
(* orchestrator and the blocking tool thread (connection/channel.rs), the  *)
(* event-driven channel endpoint with its single-slot buffer               *)
(* (connection/websocket/async.rs) and the wire codec                      *)
(* (connection/websocket/common.rs).                                       *)
(*                                                                         *)
(* Spec         the session with the client as the environment: it may put *)
(*              any frame on the socket and may close the connection.      *)
(* SpecEndpoint one channel endpoint (async.rs or sync.rs) on its own.     *)
(* SpecCall     the session with the client running call (lib.rs).         *)
(* SpecCodec    the codec applied to a message.                            *)
(* SpecValue    Value::get applied to a value and a path string            *)
(*              (value/extract.rs).                                        *)
(* SpecDriver   call (lib.rs) against a peer that writes arbitrary frames.  *)
(* SpecFair     Spec under fair scheduling of the handler task.            *)
(* SpecContract both endpoints given the same frames and read requests.    *)
(***************************************************************************)
EXTENDS Integers, Sequences, FiniteSets, TLC

VARIABLES
    pc,         \* position of tool_handler
    err,        \* the ConnectionError tool_handler returned, or "none"
    buffer,     \* WsChannelAsync.buffer : Option<Message>
    socket,     \* frames the client sent that socket.recv() has not yielded yet
    closed,     \* the client closed the connection (recv yields None when drained)
    nclient,    \* number of frames the client has sent
    out,        \* frames socket.send() accepted from the server, in order
    input,      \* the ValueDict read_values returned
    queue,      \* the mpsc channel of the bridge (msg_tx -> msg_rx)
    msg_rx,     \* Receiver.msg_rx is alive (not dropped)
    abort_slot, \* the oneshot channel of the bridge (abort_tx -> abort_rx)
    sender,     \* the Sender (msg_tx, abort_rx) is alive
    wpc,        \* position of the tool thread
    cur,        \* the message of the Sender::send call in progress
    calls,      \* history: the completed Sender::send calls, [msg, ret]
    ret,        \* what the tool returned
    aborted,    \* history: when Receiver::abort ran: the state of the tool thread
                \* and the number of Sender::send calls completed by then
    cpc,        \* position of the client's call (lib.rs: call)
    cbuffer,    \* WsChannelSync.buffer : Option<Message>
    can_read,   \* tungstenite's socket.can_read(): no Close frame was received yet
    cread,      \* number of frames of `out` the client's socket.read() has yielded
    cret,       \* the local `result` of call, then what call returned
    csent,      \* history: the frames the client's socket accepted, in order
    seen,       \* history: the on_message invocations of call, [msg, keep]
    taken,      \* history: the frames socket.recv() has yielded to the server endpoint
    reads,      \* history: the read calls made on an endpoint: [end, kind, res, val]
                \* and the slot (held) and the end of the stream (drained) they met
    fin,        \* the input a specification draws at its start
    fout        \* the value a pure function returned for fin

vars == <<pc, err, buffer, socket, closed, nclient, out, input, queue, msg_rx,
          abort_slot, sender, wpc, cur, calls, ret, aborted,
          cpc, cbuffer, can_read, cread, cret, csent, seen, taken, reads, fin,
          fout>>

\* what the server side of a session and the tool thread never touch
offsession ==
    <<cpc, cbuffer, can_read, cread, cret, csent, seen, taken, reads, fin, fout>>

(***************************************************************************)
(* Bounds of the model.                                                    *)
(***************************************************************************)
\* number of Sender::send calls one tool run makes at most
MaxSends == 3
\* number of frames the client puts on the socket at most
MaxClientFrames == 3
\* capacity of the bridge queue; mpsc::channel(1024) in channel.rs:15,
\* scaled down so that a full queue is reachable
Capacity == 2

(***************************************************************************)
(* Wire messages and the codec (common.rs).                                *)
(***************************************************************************)
\* enum Message { Values(..), Result(..), Message(..), Abort }
MessageKinds == {"Values", "Result", "Message", "Abort"}

Message(kind, payload) == [kind |-> kind, payload |-> payload]

\* Option::<Message>::None
None == [kind |-> "None", payload |-> <<>>]

\* enum WsMessageType
WsMessageType == {"Text", "Binary", "Ping", "Pong", "Close"}

\* magic number that opens a compressed stream
ZstdMagic == "zstd"

\* variant of compress: the bytes are stored as they are
compress_stored(raw) == raw

\* ruzstd::encoding::compress_to_vec
compress(raw) == <<ZstdMagic>> \o raw

\* fn serialize: rmp_serde::to_vec (variant tag, then the payload), then compress
serialize(msg) == compress(<<msg.kind>> \o msg.payload)

\* fn deserialize: StreamingDecoder::new + read_to_end, then rmp_serde::from_slice
deserialize(raw) ==
    IF Len(raw) = 0 \/ raw[1] # ZstdMagic
    THEN [err |-> "DecompressionError", msg |-> None]
    ELSE LET decompressed == Tail(raw) IN
         IF Len(decompressed) = 0 \/ decompressed[1] \notin MessageKinds
         THEN [err |-> "DeserializationError", msg |-> None]
         ELSE [err |-> "none",
               msg |-> Message(decompressed[1], Tail(decompressed))]

\* impl TryFrom<Message> for WsMessageAxum
to_ws(msg) == [ws |-> "Binary", raw |-> serialize(msg)]

\* From<WsMessageAxum> for WsMessageType, From<WsMessageTung> for WsMessageType
ws_message_type(frame) ==
    CASE frame.ws = "Text" -> "Text"
      [] frame.ws = "Binary" -> "Binary"
      [] frame.ws = "Ping" -> "Ping"
      [] frame.ws = "Pong" -> "Pong"
      [] frame.ws = "Close" -> "Close"
      [] OTHER -> frame.ws  \* a failed recv is no frame; the code never converts it

\* variant of try_from_ws: the payload of any frame is decoded
try_from_any(frame) == deserialize(frame.raw)

\* impl TryFrom<WsMessageAxum> for Message
try_from_ws(frame) ==
    IF frame.ws = "Binary"
    THEN deserialize(frame.raw)
    ELSE [err |-> "WrongMessageType", msg |-> None,
          expected |-> "Binary", found |-> ws_message_type(frame)]

\* what socket.recv() yields for a failed transport: Some(Err(_))
IoErr == [ws |-> "IoErr", raw |-> <<>>]

(***************************************************************************)
(* Inputs of the model.                                                    *)
(***************************************************************************)
\* the frames the client may put on the socket
ClientFrames ==
    { to_ws(Message("Values", <<"in">>)),
      to_ws(Message("Abort", <<>>)),
      to_ws(Message("Message", <<"hello">>)),
      [ws |-> "Binary", raw |-> <<"junk">>],
      [ws |-> "Ping", raw |-> <<>>],
      IoErr }

\* what the tool may return: Result<ValueDict, ToolError>
ToolResults == { <<"Ok", "out">>, <<"Err", "Abort">>, <<"Err", "Custom">> }

\* the text of the i-th Sender::send call of the tool
Text(i) == ToString(i)

(***************************************************************************)
(* Channel endpoint, event-driven variant (async.rs).                      *)
(***************************************************************************)
\* socket.recv() is ready: a frame is there, or the stream is closed
RecvReady == socket # <<>> \/ closed

\* variant of read: a frame is read even when the slot holds a message
read_overwrite(b, s) ==
    IF s = <<>> THEN [buffer |-> b, socket |-> s, err |-> "none"]
    ELSE IF Head(s) = IoErr
         THEN [buffer |-> None, socket |-> Tail(s), err |-> "WebSocketError"]
    ELSE LET m == try_from_ws(Head(s)) IN
         IF m.err # "none"
         THEN [buffer |-> None, socket |-> Tail(s), err |-> "ParseError"]
         ELSE [buffer |-> m.msg, socket |-> Tail(s), err |-> "none"]

\* WsChannelAsync::read: fill the buffer slot from the socket
read(b, s) ==
    IF b # None THEN [buffer |-> b, socket |-> s, err |-> "none"]
    ELSE IF s = <<>> THEN [buffer |-> None, socket |-> s, err |-> "none"]
    ELSE IF Head(s) = IoErr
         THEN [buffer |-> None, socket |-> Tail(s), err |-> "WebSocketError"]
    ELSE LET m == try_from_ws(Head(s)) IN
         IF m.err # "none"
         THEN [buffer |-> None, socket |-> Tail(s), err |-> "ParseError"]
         ELSE [buffer |-> m.msg, socket |-> Tail(s), err |-> "none"]

\* variant of read_expecting: a message of another kind is dropped, not put back
read_expecting_drop(kind, b, s) ==
    LET r == read(b, s) IN
    IF r.err # "none"
    THEN [res |-> r.err, val |-> <<>>, buffer |-> r.buffer, socket |-> r.socket]
    ELSE IF r.buffer = None
    THEN [res |-> "ConnectionClosed", val |-> <<>>, buffer |-> None, socket |-> r.socket]
    ELSE IF r.buffer.kind = kind
    THEN [res |-> "Some", val |-> r.buffer.payload, buffer |-> None, socket |-> r.socket]
    ELSE [res |-> "None", val |-> <<>>, buffer |-> None, socket |-> r.socket]

\* variant of read_expecting: with nothing left on the socket the connection
\* counts as closed, whatever the slot holds
read_expecting_eof_first(kind, b, s) ==
    LET r == read(b, s) IN
    IF r.err # "none"
    THEN [res |-> r.err, val |-> <<>>, buffer |-> r.buffer, socket |-> r.socket]
    ELSE IF r.buffer = None \/ r.socket = <<>>
    THEN [res |-> "ConnectionClosed", val |-> <<>>, buffer |-> None, socket |-> r.socket]
    ELSE IF r.buffer.kind = kind
    THEN [res |-> "Some", val |-> r.buffer.payload, buffer |-> None, socket |-> r.socket]
    ELSE [res |-> "None", val |-> <<>>, buffer |-> r.buffer, socket |-> r.socket]

\* the body shared by read_abort and read_values: take the slot if it holds `kind`
read_expecting(kind, b, s) ==
    LET r == read(b, s) IN
    IF r.err # "none"
    THEN [res |-> r.err, val |-> <<>>, buffer |-> r.buffer, socket |-> r.socket]
    ELSE IF r.buffer = None
    THEN [res |-> "ConnectionClosed", val |-> <<>>, buffer |-> None, socket |-> r.socket]
    ELSE IF r.buffer.kind = kind
    THEN [res |-> "Some", val |-> r.buffer.payload, buffer |-> None, socket |-> r.socket]
    ELSE [res |-> "None", val |-> <<>>, buffer |-> r.buffer, socket |-> r.socket]

\* variant of read_abort: the end of the stream counts as an Abort
read_abort_eof_is_abort(b, s) ==
    IF b = None /\ s = <<>>
    THEN [res |-> "Some", val |-> <<>>, buffer |-> None, socket |-> s]
    ELSE read_expecting("Abort", b, s)

\* WsChannelAsync::read_abort
read_abort(b, s) == read_expecting("Abort", b, s)

\* variant of read_values: whatever message is in the slot is taken as the input
read_values_any_kind(b, s) ==
    LET r == read_expecting("Values", b, s) IN
    IF r.res = "None"
    THEN [res |-> "Some", val |-> r.buffer.payload, buffer |-> None, socket |-> r.socket]
    ELSE r

\* WsChannelAsync::read_values
read_values(b, s) == read_expecting("Values", b, s)

\* outcomes of socket.send(): a write to a connection the peer closed may
\* still be accepted by the transport or may fail
SendOutcomes == IF closed THEN {"ok", "WebSocketError"} ELSE {"ok"}

(***************************************************************************)
(* Cross-thread bridge (channel.rs).                                       *)
(***************************************************************************)
AbortReasons == {"RequestedByClient", "ChannelError", "ConnectionClosed"}

\* oneshot::Sender::send: the value is stored unless the receiving half is gone
abort_tx_send(slot, rx_alive, reason) == IF rx_alive THEN reason ELSE slot

\* oneshot::Receiver::try_recv, mapped as in Sender::send
try_recv(slot) ==
    IF slot \in AbortReasons THEN [ret |-> slot, slot |-> "Closed"]
    ELSE IF slot = "Empty" THEN [ret |-> "Ok", slot |-> slot]
    ELSE [ret |-> "ConnectionClosed", slot |-> slot]

\* variant of mpsc_recv: the newest message first
mpsc_recv_lifo(q) == [msg |-> q[Len(q)], rest |-> SubSeq(q, 1, Len(q) - 1)]

\* mpsc::Receiver::recv on a ready channel: the oldest message
mpsc_recv(q) == [msg |-> Head(q), rest |-> Tail(q)]

\* variant of recv_none: recv stays pending when every Sender is gone
recv_none_pending(q, sender_alive) == FALSE

\* mpsc::Receiver::recv yields None: every Sender is gone and the queue is drained
recv_none(q, sender_alive) == q = <<>> /\ ~sender_alive

\* variant of abort: the Err of a dropped Sender is unwrapped instead of discarded
abort_unwrap(slot, rx_alive, reason) ==
    [slot |-> abort_tx_send(slot, rx_alive, reason), failed |-> ~rx_alive]

\* Receiver::abort: `let _ = self.abort_tx.send(reason)` discards the Err that a
\* dropped Sender produces, so the call never fails
abort(slot, rx_alive, reason) ==
    [slot |-> abort_tx_send(slot, rx_alive, reason), failed |-> FALSE]

(***************************************************************************)
(* Session orchestrator (util.rs: tool_handler).                           *)
(***************************************************************************)
\* `.ok_or(ConnectionError::ConnectionClosed)?` on the Option read_values returned
ok_or(res) == IF res = "None" THEN "ConnectionClosed" ELSE res

\* variant of join: a panicked tool is reported like a returned ToolError
join_conflate(w, r) ==
    IF w = "panicked" THEN [err |-> "none", result |-> <<"Err", "Abort">>]
    ELSE [err |-> "none", result |-> r]

\* `result.await?`: the JoinError of a panicked tool becomes ToolPanic
join(w, r) ==
    IF w = "panicked" THEN [err |-> "ToolPanic", result |-> <<>>]
    ELSE [err |-> "none", result |-> r]

\* the server side of a session before the input is read
InitSession ==
    /\ pc = "read_values"
    /\ err = "none"
    /\ buffer = None
    /\ socket = <<>>
    /\ closed = FALSE
    /\ nclient = 0
    /\ out = <<>>
    /\ input = <<>>
    /\ queue = <<>>
    /\ msg_rx = FALSE
    /\ abort_slot = "Empty"
    /\ sender = FALSE
    /\ wpc = "idle"
    /\ cur = ""
    /\ calls = <<>>
    /\ ret = <<>>
    /\ aborted = [tool |-> "no", at |-> 0]

\* the client after WsChannelSync::connect (sync.rs:23-26), and empty histories
InitClient ==
    /\ cpc = "send_values"
    /\ cbuffer = None
    /\ can_read = TRUE
    /\ cread = 0
    /\ cret = <<>>
    /\ csent = <<>>
    /\ seen = <<>>
    /\ taken = <<>>
    /\ reads = <<>>

Init ==
    /\ InitSession
    /\ InitClient
    /\ fin = <<>>
    /\ fout = <<>>

\* the client writes one frame
ClientSend ==
    /\ ~closed
    /\ nclient < MaxClientFrames
    /\ \E f \in ClientFrames : socket' = Append(socket, f)
    /\ nclient' = nclient + 1
    /\ UNCHANGED <<pc, err, buffer, closed, out, input, queue, msg_rx,
                   abort_slot, sender, wpc, cur, calls, ret, aborted>>
    /\ UNCHANGED offsession

\* the client closes the connection (or disconnects)
ClientClose ==
    /\ ~closed
    /\ closed' = TRUE
    /\ UNCHANGED <<pc, err, buffer, socket, nclient, out, input, queue, msg_rx,
                   abort_slot, sender, wpc, cur, calls, ret, aborted>>
    /\ UNCHANGED offsession

\* util.rs:39-52: read the input, build the bridge, start the tool thread
ReadInput ==
    /\ pc = "read_values"
    /\ RecvReady
    /\ LET r == read_values(buffer, socket) IN
       /\ buffer' = r.buffer
       /\ socket' = r.socket
       /\ IF r.res = "Some"
          THEN /\ input' = r.val
               /\ pc' = "loop"
               /\ queue' = <<>>
               /\ msg_rx' = TRUE
               /\ abort_slot' = "Empty"
               /\ sender' = TRUE
               /\ wpc' = "running"
               /\ err' = err
          ELSE /\ err' = ok_or(r.res)
               /\ pc' = "failed"
               /\ UNCHANGED <<input, queue, msg_rx, abort_slot, sender, wpc>>
    /\ UNCHANGED <<closed, nclient, out, cur, calls, ret, aborted>>
    /\ UNCHANGED offsession

\* variant of RecvBranch: a failed send_message is recorded and the loop goes on
RecvBranchGoOn ==
    /\ pc = "loop"
    /\ \/ /\ queue # <<>>
          /\ LET m == mpsc_recv(queue) IN
             /\ queue' = m.rest
             /\ \E o \in SendOutcomes :
                  IF o = "ok"
                  THEN /\ out' = Append(out, to_ws(Message("Message", <<m.msg>>)))
                       /\ UNCHANGED <<pc, err, msg_rx>>
                  ELSE /\ err' = o
                       /\ UNCHANGED <<pc, msg_rx, out>>
       \/ /\ recv_none(queue, sender)
          /\ pc' = "join"
          /\ UNCHANGED <<err, msg_rx, queue, out>>
    /\ UNCHANGED <<buffer, socket, closed, nclient, input, abort_slot, sender,
                   wpc, cur, calls, ret, aborted>>
    /\ UNCHANGED offsession

\* util.rs:59-64: the msg_rx.recv() branch of the select
RecvBranch ==
    /\ pc = "loop"
    /\ \/ /\ queue # <<>>
          /\ LET m == mpsc_recv(queue) IN
             /\ queue' = m.rest
             /\ \E o \in SendOutcomes :
                  IF o = "ok"
                  THEN /\ out' = Append(out, to_ws(Message("Message", <<m.msg>>)))
                       /\ UNCHANGED <<pc, err, msg_rx>>
                  ELSE /\ err' = o
                       /\ pc' = "unwind"
                       /\ msg_rx' = FALSE
                       /\ out' = out
       \/ /\ recv_none(queue, sender)
          /\ pc' = "join"
          /\ UNCHANGED <<err, msg_rx, queue, out>>
    /\ UNCHANGED <<buffer, socket, closed, nclient, input, abort_slot, sender,
                   wpc, cur, calls, ret, aborted>>
    /\ UNCHANGED offsession

\* util.rs:65-70: the ws_server.read_abort() branch of the select; on Some the
\* first half of Receiver::abort (abort_tx.send) runs, on Err the handler returns
AbortBranch ==
    /\ pc = "loop"
    /\ buffer # None \/ RecvReady
    /\ LET r == read_abort(buffer, socket) IN
       /\ buffer' = r.buffer
       /\ socket' = r.socket
       /\ IF r.res = "Some"
          THEN LET a == abort(abort_slot, sender, "RequestedByClient") IN
               /\ abort_slot' = a.slot
               /\ aborted' = [tool |-> IF sender THEN "running" ELSE "finished",
                               at |-> Len(calls)]
               /\ pc' = IF a.failed THEN "failed" ELSE "abort"
               /\ err' = IF a.failed THEN "Panic" ELSE err
               /\ msg_rx' = msg_rx
          ELSE IF r.res = "None"
          THEN UNCHANGED <<abort_slot, aborted, pc, err, msg_rx>>
          ELSE /\ err' = r.res
               /\ pc' = "unwind"
               /\ msg_rx' = FALSE
               /\ UNCHANGED <<abort_slot, aborted>>
    /\ UNCHANGED <<closed, nclient, out, input, queue, sender, wpc, cur, calls, ret>>
    /\ UNCHANGED offsession

\* variant of AbortDrop: abort borrows the Receiver, msg_rx stays alive
AbortKeep ==
    /\ pc = "abort"
    /\ pc' = "join"
    /\ UNCHANGED <<err, buffer, socket, closed, nclient, out, input, queue, msg_rx,
                   abort_slot, sender, wpc, cur, calls, ret, aborted>>
    /\ UNCHANGED offsession

\* channel.rs:52-55: Receiver::abort returns and drops the rest of self (msg_rx);
\* util.rs:68: break
AbortDrop ==
    /\ pc = "abort"
    /\ msg_rx' = FALSE
    /\ pc' = "join"
    /\ UNCHANGED <<err, buffer, socket, closed, nclient, out, input, queue,
                   abort_slot, sender, wpc, cur, calls, ret, aborted>>
    /\ UNCHANGED offsession

\* an early return of tool_handler drops the Receiver: msg_rx first (done by
\* the step that returned), then abort_tx
Unwind ==
    /\ pc = "unwind"
    /\ abort_slot' = IF abort_slot = "Empty" THEN "Closed" ELSE abort_slot
    /\ pc' = "failed"
    /\ UNCHANGED <<err, buffer, socket, closed, nclient, out, input, queue,
                   msg_rx, sender, wpc, cur, calls, ret, aborted>>
    /\ UNCHANGED offsession

\* variant of Join: the result phase starts without waiting for the tool thread
JoinNoWait ==
    /\ pc = "join"
    /\ pc' = "send_result"
    /\ UNCHANGED <<err, buffer, socket, closed, nclient, out, input, queue, msg_rx,
                   abort_slot, sender, wpc, cur, calls, ret, aborted>>
    /\ UNCHANGED offsession

\* util.rs:75: wait for the tool thread
Join ==
    /\ pc = "join"
    /\ wpc \in {"returned", "panicked"}
    /\ LET j == join(wpc, ret) IN
       IF j.err # "none"
       THEN /\ err' = j.err
            /\ pc' = "failed"
       ELSE /\ pc' = "send_result"
            /\ err' = err
    /\ UNCHANGED <<buffer, socket, closed, nclient, out, input, queue, msg_rx,
                   abort_slot, sender, wpc, cur, calls, ret, aborted>>
    /\ UNCHANGED offsession

\* util.rs:77: send the Result frame
SendResult ==
    /\ pc = "send_result"
    /\ \E o \in SendOutcomes :
         IF o = "ok"
         THEN /\ out' = Append(out, to_ws(Message("Result", join(wpc, ret).result)))
              /\ pc' = "done"
              /\ err' = err
         ELSE /\ err' = o
              /\ pc' = "failed"
              /\ out' = out
    /\ UNCHANGED <<buffer, socket, closed, nclient, input, queue, msg_rx,
                   abort_slot, sender, wpc, cur, calls, ret, aborted>>
    /\ UNCHANGED offsession

(***************************************************************************)
(* The tool thread: any tool of type ToolFn (lib.rs:46).                   *)
(***************************************************************************)
\* channel.rs:29-31: Sender::send, the blocking_send; fails once msg_rx is dropped
ToolSend ==
    /\ wpc = "running"
    /\ Len(calls) < MaxSends
    /\ LET msg == Text(Len(calls) + 1) IN
       IF msg_rx
       THEN /\ Len(queue) < Capacity
            /\ queue' = Append(queue, msg)
            /\ cur' = msg
            /\ wpc' = "try_recv"
            /\ calls' = calls
       ELSE /\ calls' = Append(calls, [msg |-> msg, ret |-> "ChannelError"])
            /\ UNCHANGED <<queue, cur, wpc>>
    /\ UNCHANGED <<pc, err, buffer, socket, closed, nclient, out, input, msg_rx,
                   abort_slot, sender, ret, aborted>>
    /\ UNCHANGED offsession

\* channel.rs:33-40: Sender::send, the check of the abort slot
ToolTryRecv ==
    /\ wpc = "try_recv"
    /\ LET t == try_recv(abort_slot) IN
       /\ abort_slot' = t.slot
       /\ calls' = Append(calls, [msg |-> cur, ret |-> t.ret])
    /\ wpc' = "running"
    /\ cur' = ""
    /\ UNCHANGED <<pc, err, buffer, socket, closed, nclient, out, input, queue,
                   msg_rx, sender, ret, aborted>>
    /\ UNCHANGED offsession

\* variant of ToolReturn: the 'aborted' error carries the reason send returned
ToolReturnWithReason ==
    /\ wpc = "running"
    /\ \E r \in ToolResults :
         ret' = IF /\ r = <<"Err", "Abort">>
                   /\ calls # <<>>
                   /\ calls[Len(calls)].ret \in AbortReasons
                THEN Append(r, calls[Len(calls)].ret)
                ELSE r
    /\ wpc' = "returned"
    /\ sender' = FALSE
    /\ UNCHANGED <<pc, err, buffer, socket, closed, nclient, out, input, queue,
                   msg_rx, abort_slot, cur, calls, aborted>>
    /\ UNCHANGED offsession

\* the tool returns; the closure that owns the Sender is dropped
ToolReturn ==
    /\ wpc = "running"
    /\ \E r \in ToolResults : ret' = r
    /\ wpc' = "returned"
    /\ sender' = FALSE
    /\ UNCHANGED <<pc, err, buffer, socket, closed, nclient, out, input, queue,
                   msg_rx, abort_slot, cur, calls, aborted>>
    /\ UNCHANGED offsession

\* the tool panics; unwinding drops the Sender
ToolPanic ==
    /\ wpc = "running"
    /\ wpc' = "panicked"
    /\ sender' = FALSE
    /\ UNCHANGED <<pc, err, buffer, socket, closed, nclient, out, input, queue,
                   msg_rx, abort_slot, cur, calls, ret, aborted>>
    /\ UNCHANGED offsession

Next ==
    \/ ClientSend
    \/ ClientClose
    \/ ReadInput
    \/ RecvBranch
    \/ AbortBranch
    \/ AbortDrop
    \/ Unwind
    \/ Join
    \/ SendResult
    \/ ToolSend
    \/ ToolTryRecv
    \/ ToolReturn
    \/ ToolPanic

Spec == Init /\ [][Next]_vars

(***************************************************************************)
(* What the claims talk about.                                             *)
(***************************************************************************)
\* the messages the peer decodes from the frames the server sent, in order
Observed == [i \in 1..Len(out) |-> try_from_ws(out[i]).msg]

\* the texts of all Sender::send calls made so far, in call order
Sent == [i \in 1..Len(calls) |-> calls[i].msg]

\* the texts that were put on the bridge queue, in order
Enqueued ==
    LET done == SelectSeq(calls, LAMBDA c : c.ret # "ChannelError") IN
    [i \in 1..Len(done) |-> done[i].msg] \o (IF wpc = "try_recv" THEN <<cur>> ELSE <<>>)

TextMessages(texts) == [i \in 1..Len(texts) |-> Message("Message", <<texts[i]>>)]

IsPrefix(s, t) == Len(s) <= Len(t) /\ \A i \in 1..Len(s) : s[i] = t[i]

ResultFrames == {i \in 1..Len(out) : Observed[i].kind = "Result"}

\* read_abort met the end of the stream: closed, nothing buffered, nothing unread
Disconnected == closed /\ socket = <<>> /\ buffer = None

\* the first frame on the socket decodes to a Values message
FirstIsValues ==
    /\ socket # <<>>
    /\ try_from_ws(Head(socket)).err = "none"
    /\ try_from_ws(Head(socket)).msg.kind = "Values"

(***************************************************************************)
(* C1: with no abort posted, the peer observes the texts of the tool's     *)
(* send calls in call order and then the Result the tool returned: what    *)
(* was sent so far is always a prefix of the enqueued texts, and a         *)
(* completed session sent exactly TextMessage(m1..mn), Result(r).          *)
(***************************************************************************)
C1_Ordering ==
    aborted.tool = "no" =>
        /\ pc # "done" => IsPrefix(Observed, TextMessages(Enqueued))
        /\ pc = "done" =>
             Observed = Append(TextMessages(Sent), Message("Result", ret))

C1_Witness ==
    /\ pc = "done" /\ aborted.tool = "no" /\ ~closed
    /\ Len(calls) = MaxSends
    /\ \A i \in 1..Len(calls) : calls[i].ret = "Ok"
    /\ Len(out) = MaxSends + 1

(***************************************************************************)
(* C2: when the Result frame has been sent, every text the tool enqueued   *)
(* on the bridge has been forwarded as a TextMessage frame.                *)
(***************************************************************************)
C2_AllEnqueuedForwarded ==
    ResultFrames # {} =>
        \A i \in 1..Len(Enqueued) :
            \E j \in 1..Len(out) : Observed[j] = Message("Message", <<Enqueued[i]>>)

(***************************************************************************)
(* C3: a text whose Sender::send call returned Ok(()) has been forwarded   *)
(* to the peer by the time the session has completed on an open connection.*)
(***************************************************************************)
C3_OkMeansForwarded ==
    (pc = "done" /\ ~closed) =>
        \A i \in 1..Len(calls) :
            calls[i].ret = "Ok" =>
                \E j \in 1..Len(out) : Observed[j] = Message("Message", <<calls[i].msg>>)

C5_NextSendGetsReason ==
    (aborted.tool = "running" /\ Len(calls) > aborted.at) =>
        calls[aborted.at + 1].ret = "RequestedByClient"

(***************************************************************************)
(* C6: in a session where an abort was posted, the tool never gets two     *)
(* error returns that carry different reasons.                             *)
(***************************************************************************)
C6_OneReason ==
    aborted.tool # "no" =>
        \A i, j \in 1..Len(calls) :
            (calls[i].ret # "Ok" /\ calls[j].ret # "Ok") => calls[i].ret = calls[j].ret

(***************************************************************************)
(* C7: an Abort read after the tool returned and dropped its Sender is a   *)
(* no-op: nothing is stored in the abort slot, the handler does not fail   *)
(* because of it (only a failed send on a closed connection can still fail *)
(* the session), and a completed session sent exactly one Result frame,    *)
(* the last frame, carrying what the tool returned.                        *)
(***************************************************************************)
C7_LateAbortNoop ==
    (aborted.tool = "finished" /\ wpc = "returned") =>
        /\ abort_slot = "Empty"
        /\ pc \in {"abort", "join", "send_result", "done", "failed"}
        /\ pc = "failed" => (err = "WebSocketError" /\ closed)
        /\ pc = "done" =>
             /\ ResultFrames = {Len(out)}
             /\ Observed[Len(out)] = Message("Result", ret)

C7_Witness ==
    /\ aborted.tool = "finished" /\ wpc = "returned"
    /\ pc = "done" /\ ~closed
    /\ Observed[Len(out)] = Message("Result", ret)

(***************************************************************************)
(* C8: the server sends at most one Result frame, only after the tool has  *)
(* returned, carrying what it returned, and a Result frame is always the   *)
(* last frame sent (so no TextMessage follows it).                         *)
(***************************************************************************)
C8_SingleFinalResult ==
    /\ Cardinality(ResultFrames) <= 1
    /\ \A i \in ResultFrames :
         /\ i = Len(out)
         /\ wpc = "returned"
         /\ pc = "done"
         /\ Observed[i].payload = ret

C8_Witness ==
    /\ pc = "done"
    /\ Len(out) = 2
    /\ Observed[1].kind = "Message"
    /\ ResultFrames = {2}
    /\ queue # <<>>

(***************************************************************************)
(* C9: the step that reads the input goes to the running loop only if the  *)
(* first frame is a Values frame; on anything else (another message kind,  *)
(* a non-binary or corrupt frame, a transport error, a closed connection)  *)
(* the session fails, the tool thread is never started and the server      *)
(* never sends a frame.                                                    *)
(***************************************************************************)
C9_BadInputFails ==
    /\ [][(pc = "read_values" /\ pc' # pc) =>
            IF FirstIsValues
            THEN pc' = "loop" /\ wpc' = "running"
            ELSE pc' = "failed" /\ err' # "none" /\ wpc' = "idle" /\ out' = <<>>]_vars
    /\ [](wpc = "idle" => out = <<>>)
    /\ []((pc = "failed" /\ input = <<>>) => wpc = "idle")

C9_Witness ==
    /\ pc = "failed" /\ err = "ConnectionClosed"
    /\ buffer = Message("Abort", <<>>)
    /\ wpc = "idle" /\ out = <<>>

(***************************************************************************)
(* C10: awaiting a panicked tool ends the session with ToolPanic and no    *)
(* Result frame is ever sent for a panicked tool; awaiting a tool that     *)
(* returned goes on to send the Result, and the Result frame sent carries  *)
(* exactly what the tool returned, Err(ToolError) included.                *)
(***************************************************************************)
C10_PanicIsNotToolError ==
    /\ [][(pc = "join" /\ pc' # pc) =>
            IF wpc = "panicked"
            THEN pc' = "failed" /\ err' = "ToolPanic" /\ out' = out
            ELSE pc' = "send_result"]_vars
    /\ [][(pc = "send_result" /\ pc' = "done") =>
            out' = Append(out, to_ws(Message("Result", ret)))]_vars
    /\ [](wpc = "panicked" => ResultFrames = {})
    /\ [](err = "ToolPanic" => (wpc = "panicked" /\ pc = "failed"))

C10_Witness ==
    /\ pc = "failed" /\ err = "ToolPanic" /\ wpc = "panicked"
    /\ Len(out) >= 1 /\ ResultFrames = {}

C10_WitnessErr ==
    /\ pc = "done" /\ ret = <<"Err", "Custom">>
    /\ Observed[Len(out)] = Message("Result", <<"Err", "Custom">>)

(***************************************************************************)
(* Channel endpoint, blocking variant (sync.rs), used by the client.       *)
(***************************************************************************)
\* number of frames the server side puts on the client's socket at most
MaxServerFrames == 3
\* number of read calls made on one endpoint at most
MaxReads == 4

\* impl TryFrom<WsMessageTung> for Message
try_from_tung(frame) ==
    IF frame.ws = "Binary"
    THEN deserialize(frame.raw)
    ELSE [err |-> "WrongMessageType", msg |-> None,
          expected |-> "Binary", found |-> ws_message_type(frame)]

\* impl TryFrom<Message> for WsMessageTung
to_tung(msg) == [ws |-> "Binary", raw |-> serialize(msg)]

\* the Close frame of the closing handshake
CloseFrame == [ws |-> "Close", raw |-> <<>>]

\* the frames of `out` the client's socket.read() has not yielded yet
Incoming == SubSeq(out, cread + 1, Len(out))

\* variant of sync_read: can_read() is not consulted, and socket.read() on a
\* stream that has ended is an error
sync_read_without_can_read(b, s, can) ==
    IF b # None
    THEN [buffer |-> b, socket |-> s, can_read |-> can, err |-> "none"]
    ELSE IF s = <<>> \/ Head(s) = IoErr
         THEN [buffer |-> None, socket |-> IF s = <<>> THEN s ELSE Tail(s),
               can_read |-> can, err |-> "WebSocketError"]
    ELSE LET m == try_from_tung(Head(s))
             still == Head(s).ws # "Close"
         IN  IF m.err # "none"
             THEN [buffer |-> None, socket |-> Tail(s), can_read |-> still,
                   err |-> "ParseError"]
             ELSE [buffer |-> m.msg, socket |-> Tail(s), can_read |-> still,
                   err |-> "none"]

\* WsChannelSync::read: fill the buffer slot from the socket, if it is empty
\* and the socket can still be read; socket.read() blocks, so `s` holds a frame
\* then.  A Close frame ends what can be read.
sync_read(b, s, can) ==
    IF b # None \/ ~can
    THEN [buffer |-> b, socket |-> s, can_read |-> can, err |-> "none"]
    ELSE IF Head(s) = IoErr
         THEN [buffer |-> None, socket |-> Tail(s), can_read |-> can,
               err |-> "WebSocketError"]
    ELSE LET m == try_from_tung(Head(s))
             still == Head(s).ws # "Close"
         IN  IF m.err # "none"
             THEN [buffer |-> None, socket |-> Tail(s), can_read |-> still,
                   err |-> "ParseError"]
             ELSE [buffer |-> m.msg, socket |-> Tail(s), can_read |-> still,
                   err |-> "none"]

\* the body shared by read_message and read_result
sync_read_expecting(kind, b, s, can) ==
    LET r == sync_read(b, s, can) IN
    IF r.err # "none"
    THEN [res |-> r.err, val |-> <<>>, buffer |-> r.buffer, socket |-> r.socket,
          can_read |-> r.can_read]
    ELSE IF r.buffer = None
    THEN [res |-> "ConnectionClosed", val |-> <<>>, buffer |-> None,
          socket |-> r.socket, can_read |-> r.can_read]
    ELSE IF r.buffer.kind = kind
    THEN [res |-> "Some", val |-> r.buffer.payload, buffer |-> None,
          socket |-> r.socket, can_read |-> r.can_read]
    ELSE [res |-> "None", val |-> <<>>, buffer |-> r.buffer, socket |-> r.socket,
          can_read |-> r.can_read]

\* WsChannelSync::read_message
read_message(b, s, can) == sync_read_expecting("Message", b, s, can)

\* WsChannelSync::read_result
read_result(b, s, can) == sync_read_expecting("Result", b, s, can)

\* the read of the blocking endpoint returns: the slot is full, the socket
\* cannot be read any more, or socket.read() has a frame to yield
SyncReady == cbuffer # None \/ ~can_read \/ Incoming # <<>>

(***************************************************************************)
(* The endpoints on their own: one endpoint, chosen at the start, is fed   *)
(* arbitrary frames and is read with arbitrary requested kinds.            *)
(***************************************************************************)
\* the frames the server side may put on the client's socket
ServerFrames ==
    { to_ws(Message("Message", <<"hello">>)),
      to_ws(Message("Result", <<"Ok", "out">>)),
      to_ws(Message("Values", <<"in">>)),
      [ws |-> "Binary", raw |-> <<"junk">>],
      [ws |-> "Text", raw |-> <<>>],
      CloseFrame,
      IoErr }

\* the endpoints under test
Endpoints == {"async", "sync"}

InitEndpoint ==
    /\ InitSession
    /\ InitClient
    /\ fin \in Endpoints
    /\ fout = <<>>

\* the frames socket.recv() yielded during a read of the event-driven endpoint
Yielded(before, after) == SubSeq(before, 1, Len(before) - Len(after))

\* a read call on the event-driven endpoint (async.rs:57-79)
AsyncRead ==
    /\ fin = "async"
    /\ Len(reads) < MaxReads
    /\ buffer # None \/ RecvReady
    /\ \E kind \in {"Abort", "Values"} :
         LET r == IF kind = "Abort" THEN read_abort(buffer, socket)
                  ELSE read_values(buffer, socket)
         IN  /\ buffer' = r.buffer
             /\ socket' = r.socket
             /\ taken' = taken \o Yielded(socket, r.socket)
             /\ reads' = Append(reads, [end |-> "async", kind |-> kind,
                                        res |-> r.res, val |-> r.val,
                                        held |-> buffer,
                                        drained |-> closed /\ socket = <<>>])
    /\ UNCHANGED <<pc, err, closed, nclient, out, input, queue, msg_rx, abort_slot,
                   sender, wpc, cur, calls, ret, aborted>>
    /\ UNCHANGED <<cpc, cbuffer, can_read, cread, cret, csent, seen, fin, fout>>

\* the server side writes one frame; nothing follows a Close frame
ServerFeed ==
    /\ fin = "sync"
    /\ Len(out) < MaxServerFrames
    /\ \A i \in 1..Len(out) : out[i] # CloseFrame
    /\ \E f \in ServerFrames : out' = Append(out, f)
    /\ UNCHANGED <<pc, err, buffer, socket, closed, nclient, input, queue, msg_rx,
                   abort_slot, sender, wpc, cur, calls, ret, aborted>>
    /\ UNCHANGED offsession

\* a read call on the blocking endpoint (sync.rs:64-86)
SyncRead ==
    /\ fin = "sync"
    /\ Len(reads) < MaxReads
    /\ SyncReady
    /\ \E kind \in {"Message", "Result"} :
         LET r == IF kind = "Message" THEN read_message(cbuffer, Incoming, can_read)
                  ELSE read_result(cbuffer, Incoming, can_read)
         IN  /\ cbuffer' = r.buffer
             /\ can_read' = r.can_read
             /\ cread' = cread + (Len(Incoming) - Len(r.socket))
             /\ reads' = Append(reads, [end |-> "sync", kind |-> kind,
                                        res |-> r.res, val |-> r.val,
                                        held |-> cbuffer,
                                        drained |-> ~can_read])
    /\ UNCHANGED <<pc, err, buffer, socket, closed, nclient, out, input, queue,
                   msg_rx, abort_slot, sender, wpc, cur, calls, ret, aborted>>
    /\ UNCHANGED <<cpc, cret, csent, seen, taken, fin, fout>>

\* the client of the event-driven endpoint writes a frame or closes
AsyncFeed == fin = "async" /\ (ClientSend \/ ClientClose)

NextEndpoint ==
    \/ AsyncFeed
    \/ AsyncRead
    \/ ServerFeed
    \/ SyncRead

SpecEndpoint == InitEndpoint /\ [][NextEndpoint]_vars

(***************************************************************************)
(* What the claims about the endpoints talk about.                         *)
(***************************************************************************)
\* a step that is a read call on the endpoint under test, and that call
ReadStep == Len(reads') = Len(reads) + 1
Call == reads'[Len(reads')]

\* the slot of the endpoint under test before and after the step
SlotBefore == IF fin = "async" THEN buffer ELSE cbuffer
SlotAfter == IF fin = "async" THEN buffer' ELSE cbuffer'

\* the frames the socket yielded during the step
Got == IF fin = "async" THEN Yielded(socket, socket')
       ELSE SubSeq(out, cread + 1, cread')

\* the socket has a frame to yield
Available == IF fin = "async" THEN socket # <<>> ELSE can_read /\ Incoming # <<>>

\* the frame decodes to a message
Decodes(f) == f # IoErr /\ try_from_ws(f).err = "none"

\* the messages of the frames that decode, in order
Decoded(frames) ==
    LET ok == SelectSeq(frames, Decodes)
    IN  [i \in 1..Len(ok) |-> try_from_ws(ok[i]).msg]

\* the messages the successful reads of the endpoint returned, in order
Returned ==
    LET some(c) == c.res = "Some"
        ok == SelectSeq(reads, some)
    IN  [i \in 1..Len(ok) |-> Message(ok[i].kind, ok[i].val)]

\* the slot as a sequence of at most one message
Slot(b) == IF b = None THEN <<>> ELSE <<b>>

\* all frames the socket of the endpoint under test yielded / was given so far
Consumed == IF fin = "async" THEN taken ELSE SubSeq(out, 1, cread)
Delivered == IF fin = "async" THEN taken \o socket ELSE out

\* C11: a read call on an endpoint reads no frame while the slot holds a
\* message; a held message of the requested kind is returned and the slot is
\* emptied; with an empty slot exactly one frame is read (if the socket has
\* one); a message of another kind stays in (or is stored in) the slot and the
\* call returns None; an occupied slot is never written.
C11_SlotDiscipline ==
    [][ReadStep =>
        /\ SlotBefore # None => Got = <<>> /\ SlotAfter \in {SlotBefore, None}
        /\ (SlotBefore # None /\ SlotBefore.kind = Call.kind) =>
              Call.res = "Some" /\ Call.val = SlotBefore.payload /\ SlotAfter = None
        /\ (SlotBefore # None /\ SlotBefore.kind # Call.kind) =>
              Call.res = "None" /\ SlotAfter = SlotBefore
        /\ SlotBefore = None => Len(Got) = (IF Available THEN 1 ELSE 0)
        /\ (SlotBefore = None /\ Got # <<>> /\ Decodes(Got[1])) =>
              LET m == try_from_ws(Got[1]).msg IN
              IF m.kind = Call.kind
              THEN Call.res = "Some" /\ Call.val = m.payload /\ SlotAfter = None
              ELSE Call.res = "None" /\ SlotAfter = m
       ]_vars

\* a frame of another kind was stored by one call and returned by a later one
\* without another frame being read
C11_Witness ==
    /\ Len(Consumed) = 1
    /\ \E i \in 1..Len(reads) : \E j \in (i+1)..Len(reads) :
         /\ reads[i].res = "None" /\ reads[i].held = None
         /\ reads[j].res = "Some" /\ reads[j].held # None

\* C12: the messages the successful reads return are, in order, a prefix of
\* the messages the socket delivered: together with the message in the slot
\* they are exactly the decodable frames read so far, none lost, duplicated or
\* reordered.
C12_NoLossNoReorder ==
    /\ Returned \o Slot(SlotBefore) = Decoded(Consumed)
    /\ IsPrefix(Returned, Decoded(Delivered))

\* reads of alternating kinds returned two messages, one of them from the slot
C12_Witness ==
    /\ Len(Returned) >= 2
    /\ Returned[1].kind # Returned[2].kind
    /\ \E i \in 1..Len(reads) : reads[i].res = "None"

C18_NonBinaryRejected ==
    /\ \A ws \in WsMessageType \ {"Binary"} :
         \A raw \in {<<>>, serialize(Message("Abort", <<>>))} :
           \A d \in {try_from_ws([ws |-> ws, raw |-> raw]),
                     try_from_tung([ws |-> ws, raw |-> raw])} :
             /\ d.err = "WrongMessageType"
             /\ d.msg = None
             /\ d.expected = "Binary"
             /\ d.found = ws
    /\ [][(ReadStep /\ Got # <<>> /\ Got[1].ws \in WsMessageType \ {"Binary"}) =>
            (Call.res = "ParseError" /\ SlotAfter = None)]_vars

\* a read met a frame that is not Binary
C18_Witness ==
    /\ reads # <<>>
    /\ reads[Len(reads)].res = "ParseError"
    /\ Consumed # <<>>
    /\ Consumed[Len(Consumed)].ws \in WsMessageType \ {"Binary"}

(***************************************************************************)
(* The client: call (lib.rs:131-158) over the blocking endpoint, run       *)
(* against the session above.                                              *)
(***************************************************************************)
\* the ValueDict the caller passes to call
CallInput == <<"in">>

\* tool_handler returned: the server's endpoint is dropped, the stream ends
ServerClosed == pc \in {"done", "failed"}

\* outcomes of the client's socket.send() / socket.close(): a write to a
\* connection the server dropped may still be accepted or may fail
ClientSendOutcomes == IF ServerClosed THEN {"ok", "WebSocketError"} ELSE {"ok"}

\* how the end of the stream shows in socket.read(): the Close frame of a
\* closing handshake, or an error for a connection reset without one
EndOfStream == {CloseFrame, IoErr}

\* what socket.read() has left to yield, `eof` being how the stream ends
Stream(eof) ==
    IF Incoming # <<>> THEN Incoming
    ELSE IF ServerClosed THEN <<eof>> ELSE <<>>

\* the number of frames of `out` a read took, given what it left of the stream
TookOfOut(rest) == IF Incoming # <<>> THEN Len(Incoming) - Len(rest) ELSE 0

\* From<ConnectionError> for ToolCallError, applied by `?`
connection_error(e) == <<"Err", "ConnectionError", e>>

\* variant of map_err: the tool's error is dropped and an empty success returned
map_err_swallow(result) == <<"Ok", "">>

\* result.map_err(ToolCallError::ToolReturnedError)
map_err(result) ==
    IF result[1] = "Ok" THEN result
    ELSE <<"Err", "ToolReturnedError", result[2]>>

\* what on_message may answer: continue (true) or stop (false)
Verdicts == BOOLEAN

\* variant of CallSendValues: an Abort frame follows the input at once
CallSendValuesAndAbort ==
    /\ cpc = "send_values"
    /\ socket' = socket \o <<to_tung(Message("Values", CallInput)),
                              to_tung(Message("Abort", <<>>))>>
    /\ csent' = csent \o <<to_tung(Message("Values", CallInput))>>
    /\ nclient' = nclient + 1
    /\ cpc' = "read_message"
    /\ UNCHANGED <<cret, closed>>
    /\ UNCHANGED <<pc, err, buffer, out, input, queue, msg_rx, abort_slot, sender,
                   wpc, cur, calls, ret, aborted>>
    /\ UNCHANGED <<cbuffer, can_read, cread, seen, taken, reads, fin, fout>>

\* lib.rs:139: ws_client.send_values(input)?
CallSendValues ==
    /\ cpc = "send_values"
    /\ \E o \in ClientSendOutcomes :
         IF o = "ok"
         THEN /\ socket' = Append(socket, to_tung(Message("Values", CallInput)))
              /\ csent' = Append(csent, to_tung(Message("Values", CallInput)))
              /\ nclient' = nclient + 1
              /\ cpc' = "read_message"
              /\ UNCHANGED <<cret, closed>>
         ELSE /\ cret' = connection_error(o)
              /\ cpc' = "returned"
              /\ closed' = TRUE
              /\ UNCHANGED <<socket, csent, nclient>>
    /\ UNCHANGED <<pc, err, buffer, out, input, queue, msg_rx, abort_slot, sender,
                   wpc, cur, calls, ret, aborted>>
    /\ UNCHANGED <<cbuffer, can_read, cread, seen, taken, reads, fin, fout>>

\* variant of CallReadMessage: the answer of on_message is ignored
CallReadMessageDeaf ==
    /\ cpc = "read_message"
    /\ SyncReady \/ ServerClosed
    /\ \E eof \in EndOfStream :
         LET r == read_message(cbuffer, Stream(eof), can_read) IN
         /\ cbuffer' = r.buffer
         /\ can_read' = r.can_read
         /\ cread' = cread + TookOfOut(r.socket)
         /\ IF r.res = "Some"
            THEN /\ \E keep \in Verdicts :
                      seen' = Append(seen, [msg |-> r.val, keep |-> keep,
                                            nread |-> cread'])
                 /\ cpc' = "read_message"
                 /\ UNCHANGED <<cret, closed>>
            ELSE IF r.res = "None"
            THEN /\ cpc' = "read_result"
                 /\ UNCHANGED <<seen, cret, closed>>
            ELSE /\ cret' = connection_error(r.res)
                 /\ cpc' = "returned"
                 /\ closed' = TRUE
                 /\ seen' = seen
    /\ UNCHANGED <<pc, err, buffer, socket, nclient, out, input, queue, msg_rx,
                   abort_slot, sender, wpc, cur, calls, ret, aborted>>
    /\ UNCHANGED <<csent, taken, reads, fin, fout>>

\* lib.rs:142-143: one turn of the loop: ws_client.read_message()?, and for a
\* message the call of on_message; an early return drops ws_client
CallReadMessage ==
    /\ cpc = "read_message"
    /\ SyncReady \/ ServerClosed
    /\ \E eof \in EndOfStream :
         LET r == read_message(cbuffer, Stream(eof), can_read) IN
         /\ cbuffer' = r.buffer
         /\ can_read' = r.can_read
         /\ cread' = cread + TookOfOut(r.socket)
         /\ IF r.res = "Some"
            THEN /\ \E keep \in Verdicts :
                      /\ seen' = Append(seen, [msg |-> r.val, keep |-> keep,
                                               nread |-> cread'])
                      /\ cpc' = IF keep THEN "read_message" ELSE "send_abort"
                 /\ UNCHANGED <<cret, closed>>
            ELSE IF r.res = "None"
            THEN /\ cpc' = "read_result"
                 /\ UNCHANGED <<seen, cret, closed>>
            ELSE /\ cret' = connection_error(r.res)
                 /\ cpc' = "returned"
                 /\ closed' = TRUE
                 /\ seen' = seen
    /\ UNCHANGED <<pc, err, buffer, socket, nclient, out, input, queue, msg_rx,
                   abort_slot, sender, wpc, cur, calls, ret, aborted>>
    /\ UNCHANGED <<csent, taken, reads, fin, fout>>

\* variant of CallSendAbort: the Abort frame is written twice
CallSendAbortTwice ==
    /\ cpc = "send_abort"
    /\ \E o \in ClientSendOutcomes :
         IF o = "ok"
         THEN /\ socket' = socket \o <<to_tung(Message("Abort", <<>>)),
                                       to_tung(Message("Abort", <<>>))>>
              /\ csent' = csent \o <<to_tung(Message("Abort", <<>>)),
                                     to_tung(Message("Abort", <<>>))>>
              /\ nclient' = nclient + 1
              /\ cpc' = "close_abort"
              /\ UNCHANGED <<cret, closed>>
         ELSE /\ cret' = connection_error(o)
              /\ cpc' = "returned"
              /\ closed' = TRUE
              /\ UNCHANGED <<socket, csent, nclient>>
    /\ UNCHANGED <<pc, err, buffer, out, input, queue, msg_rx, abort_slot, sender,
                   wpc, cur, calls, ret, aborted>>
    /\ UNCHANGED <<cbuffer, can_read, cread, seen, taken, reads, fin, fout>>

\* lib.rs:145: ws_client.send_abort()?
CallSendAbort ==
    /\ cpc = "send_abort"
    /\ \E o \in ClientSendOutcomes :
         IF o = "ok"
         THEN /\ socket' = Append(socket, to_tung(Message("Abort", <<>>)))
              /\ csent' = Append(csent, to_tung(Message("Abort", <<>>)))
              /\ nclient' = nclient + 1
              /\ cpc' = "close_abort"
              /\ UNCHANGED <<cret, closed>>
         ELSE /\ cret' = connection_error(o)
              /\ cpc' = "returned"
              /\ closed' = TRUE
              /\ UNCHANGED <<socket, csent, nclient>>
    /\ UNCHANGED <<pc, err, buffer, out, input, queue, msg_rx, abort_slot, sender,
                   wpc, cur, calls, ret, aborted>>
    /\ UNCHANGED <<cbuffer, can_read, cread, seen, taken, reads, fin, fout>>

\* WsChannelSync::close (sync.rs:29-34): the Close frame is written and the
\* endpoint is dropped; returns the error of the write, or "none"
close(o) ==
    [socket |-> IF o = "ok" THEN Append(socket, CloseFrame) ELSE socket,
     csent |-> IF o = "ok" THEN Append(csent, CloseFrame) ELSE csent,
     err |-> IF o = "ok" THEN "none" ELSE o]

\* lib.rs:146-147: ws_client.close()?; return Err(OnMessageAbort)
CallCloseAbort ==
    /\ cpc = "close_abort"
    /\ \E o \in ClientSendOutcomes :
         LET c == close(o) IN
         /\ socket' = c.socket
         /\ csent' = c.csent
         /\ cret' = IF c.err = "none" THEN <<"Err", "OnMessageAbort">>
                    ELSE connection_error(c.err)
    /\ closed' = TRUE
    /\ cpc' = "returned"
    /\ UNCHANGED <<pc, err, buffer, nclient, out, input, queue, msg_rx, abort_slot,
                   sender, wpc, cur, calls, ret, aborted>>
    /\ UNCHANGED <<cbuffer, can_read, cread, seen, taken, reads, fin, fout>>

\* variant of CallReadResult: whatever message is in the slot is taken as the
\* result
CallReadResultAnyKind ==
    /\ cpc = "read_result"
    /\ SyncReady \/ ServerClosed
    /\ \E eof \in EndOfStream :
         LET r == read_result(cbuffer, Stream(eof), can_read) IN
         /\ can_read' = r.can_read
         /\ cread' = cread + TookOfOut(r.socket)
         /\ IF r.res \in {"Some", "None"}
            THEN /\ cret' = IF r.res = "Some" THEN r.val ELSE r.buffer.payload
                 /\ cbuffer' = None
                 /\ cpc' = "close"
                 /\ closed' = closed
            ELSE /\ cret' = connection_error(r.res)
                 /\ cbuffer' = r.buffer
                 /\ cpc' = "returned"
                 /\ closed' = TRUE
    /\ UNCHANGED <<pc, err, buffer, socket, nclient, out, input, queue, msg_rx,
                   abort_slot, sender, wpc, cur, calls, ret, aborted>>
    /\ UNCHANGED <<csent, seen, taken, reads, fin, fout>>

\* lib.rs:152-154: ws_client.read_result()?.ok_or(ProtocolError)?
CallReadResult ==
    /\ cpc = "read_result"
    /\ SyncReady \/ ServerClosed
    /\ \E eof \in EndOfStream :
         LET r == read_result(cbuffer, Stream(eof), can_read) IN
         /\ cbuffer' = r.buffer
         /\ can_read' = r.can_read
         /\ cread' = cread + TookOfOut(r.socket)
         /\ IF r.res = "Some"
            THEN /\ cret' = r.val
                 /\ cpc' = "close"
                 /\ closed' = closed
            ELSE /\ cret' = IF r.res = "None" THEN <<"Err", "ProtocolError">>
                            ELSE connection_error(r.res)
                 /\ cpc' = "returned"
                 /\ closed' = TRUE
    /\ UNCHANGED <<pc, err, buffer, socket, nclient, out, input, queue, msg_rx,
                   abort_slot, sender, wpc, cur, calls, ret, aborted>>
    /\ UNCHANGED <<csent, seen, taken, reads, fin, fout>>

\* lib.rs:156-157: ws_client.close()?; result.map_err(ToolReturnedError)
CallClose ==
    /\ cpc = "close"
    /\ \E o \in ClientSendOutcomes :
         LET c == close(o) IN
         /\ socket' = c.socket
         /\ csent' = c.csent
         /\ cret' = IF c.err = "none" THEN map_err(cret)
                    ELSE connection_error(c.err)
    /\ closed' = TRUE
    /\ cpc' = "returned"
    /\ UNCHANGED <<pc, err, buffer, nclient, out, input, queue, msg_rx, abort_slot,
                   sender, wpc, cur, calls, ret, aborted>>
    /\ UNCHANGED <<cbuffer, can_read, cread, seen, taken, reads, fin, fout>>

NextCall ==
    \/ CallSendValues
    \/ CallReadMessage
    \/ CallSendAbort
    \/ CallCloseAbort
    \/ CallReadResult
    \/ CallClose
    \/ ReadInput
    \/ RecvBranch
    \/ AbortBranch
    \/ AbortDrop
    \/ Unwind
    \/ Join
    \/ SendResult
    \/ ToolSend
    \/ ToolTryRecv
    \/ ToolReturn
    \/ ToolPanic

SpecCall == Init /\ [][NextCall]_vars

(***************************************************************************)
(* What the claims about call talk about.                                  *)
(***************************************************************************)
\* on_message answered false
Stopped == \E i \in 1..Len(seen) : ~seen[i].keep

\* the Abort frames among the frames the client sent
AbortsSent == {i \in 1..Len(csent) : try_from_ws(csent[i]).msg.kind = "Abort"}

\* the error call returns when a send or the close failed
TransportFailed == cret = connection_error("WebSocketError")

\* C14 (as stated): when the connection closes before a Result frame arrived,
\* call returns ProtocolError and nothing else.
C14_CloseIsProtocolError ==
    (cpc = "returned" /\ ~Stopped /\ ServerClosed /\ ResultFrames = {}
        /\ cread = Len(out))
    => cret = <<"Err", "ProtocolError">>

ScenarioSends == Capacity

MaxPayload == 2

\* the strings a payload is made of; some look like parts of the encoding
Strings == {"", "a", ZstdMagic, "Abort"}

\* the tuples of Strings of length n or less
Tuples(n) == UNION {[1..k -> Strings] : k \in 0..n}

\* the messages the codec is applied to
CodecMessages ==
    {Message("Values", p) : p \in Tuples(MaxPayload)}
    \cup {Message("Result", <<"Ok">> \o p) : p \in Tuples(MaxPayload)}
    \cup {Message("Result", <<"Err", "Abort">>)}
    \cup {Message("Result", <<"Err", "Custom", s>>) : s \in Strings}
    \cup {Message("Message", <<s>>) : s \in Strings}
    \cup {Message("Abort", <<>>)}

\* the sides that encode: the server (axum) and the client (tungstenite)
Sides == {"axum", "tung"}

InitCodec ==
    /\ InitSession
    /\ InitClient
    /\ fin \in CodecMessages
    /\ fout = [step |-> "input", by |-> "", frame |-> CloseFrame,
               res |-> [err |-> "none", msg |-> None]]

\* one side turns the message into a frame (common.rs:135-150)
Encode ==
    /\ fout.step = "input"
    /\ \E side \in Sides :
         fout' = [fout EXCEPT !.step = "encoded", !.by = side,
                              !.frame = IF side = "axum" THEN to_ws(fin)
                                        ELSE to_tung(fin)]
    /\ UNCHANGED <<pc, err, buffer, socket, closed, nclient, out, input, queue,
                   msg_rx, abort_slot, sender, wpc, cur, calls, ret, aborted>>
    /\ UNCHANGED <<cpc, cbuffer, can_read, cread, cret, csent, seen, taken, reads,
                   fin>>

\* the other side turns the frame into a message (common.rs:90-117)
Decode ==
    /\ fout.step = "encoded"
    /\ fout' = [fout EXCEPT !.step = "decoded",
                            !.res = IF fout.by = "axum"
                                    THEN try_from_tung(fout.frame)
                                    ELSE try_from_ws(fout.frame)]
    /\ UNCHANGED <<pc, err, buffer, socket, closed, nclient, out, input, queue,
                   msg_rx, abort_slot, sender, wpc, cur, calls, ret, aborted>>
    /\ UNCHANGED <<cpc, cbuffer, can_read, cread, cret, csent, seen, taken, reads,
                   fin>>

NextCodec ==
    \/ Encode
    \/ Decode

SpecCodec == InitCodec /\ [][NextCodec]_vars

MaxPathLen == 3

\* the variants of Value that hold no other Value (value/mod.rs:15-36)
LeafTags == {"None", "Bool", "Int", "Float", "Complex", "Vec3", "Vec4", "Str",
             "InstantSeqEvent", "Volume", "SegmentedPhantom", "PhantomTissue"}

Leaf(tag, a) ==
    [tag |-> tag, atom |-> a, keys |-> <<>>, items |-> <<>>, raw |-> <<>>]

\* Value::List(List(Vec<Value>))
List(items) ==
    [tag |-> "List", atom |-> "", keys |-> <<>>, items |-> items, raw |-> <<>>]

\* Value::Dict(Dict(HashMap<String, Value>))
Dict(keys, items) ==
    [tag |-> "Dict", atom |-> "", keys |-> keys, items |-> items, raw |-> <<>>]

\* Value::TypedList(TypedList::T(Vec<T>))
TypedList(elem, raw) ==
    [tag |-> "TypedList", atom |-> elem, keys |-> <<>>, items |-> <<>>, raw |-> raw]

\* Value::TypedDict(TypedDict::T(HashMap<String, T>))
TypedDict(elem, keys, raw) ==
    [tag |-> "TypedDict", atom |-> elem, keys |-> keys, items |-> <<>>, raw |-> raw]

\* Result<Value, ExtractionError>
Ok(v) == [ok |-> TRUE, val |-> v, err |-> "none"]
Err(e) == [ok |-> FALSE, val |-> Leaf("None", ""), err |-> e]

\* enum Index { Key(String), Idx(usize) }
Key(k) == [kind |-> "Key", key |-> k, idx |-> 0]
Idx(i) == [kind |-> "Idx", key |-> <<>>, idx |-> i]

Digits == <<"0", "1", "2", "3", "4", "5", "6", "7", "8", "9">>

DigitValue(c) == (CHOOSE i \in 1..Len(Digits) : Digits[i] = c) - 1

IsDigit(c) == \E i \in 1..Len(Digits) : Digits[i] = c

RECURSIVE Decimal(_)
Decimal(ds) ==
    IF ds = <<>> THEN 0
    ELSE 10 * Decimal(SubSeq(ds, 1, Len(ds) - 1)) + DigitValue(ds[Len(ds)])

\* variant of parse_usize: the empty string is the number 0
parse_usize_empty_is_zero(element) ==
    IF \A i \in 1..Len(element) : IsDigit(element[i])
    THEN [ok |-> TRUE, val |-> Decimal(element)]
    ELSE [ok |-> FALSE, val |-> 0]

\* str::parse::<usize>: an optional '+', then one digit or more (a number
\* above usize::MAX is an error too; no token of the model is that long)
parse_usize(element) ==
    LET ds == IF element # <<>> /\ element[1] = "+" THEN Tail(element)
              ELSE element
    IN  IF ds # <<>> /\ \A i \in 1..Len(ds) : IsDigit(ds[i])
        THEN [ok |-> TRUE, val |-> Decimal(ds)]
        ELSE [ok |-> FALSE, val |-> 0]

\* str::split('/'): the pieces between the separators; one piece for a string
\* without a separator, the empty string included
RECURSIVE split(_)
split(value) ==
    IF \A i \in 1..Len(value) : value[i] # "/"
    THEN <<value>>
    ELSE LET at == CHOOSE i \in 1..Len(value) :
                     value[i] = "/" /\ \A j \in 1..(i - 1) : value[j] # "/"
         IN  <<SubSeq(value, 1, at - 1)>> \o split(SubSeq(value, at + 1, Len(value)))

\* impl From<&str> for Pointer
from_str(value) ==
    LET elements == split(value) IN
    [i \in 1..Len(elements) |->
       LET p == parse_usize(elements[i]) IN
       IF p.ok THEN Idx(p.val) ELSE Key(elements[i])]

\* Option<T>
Some(x) == [some |-> TRUE, val |-> x]
Nothing(x) == [some |-> FALSE, val |-> x]

\* <[T]>::first
first(ptr) == IF ptr = <<>> THEN Nothing(Key(<<>>)) ELSE Some(Head(ptr))

\* variant of get_from_1: the range is clamped to the slice, never None
get_from_1_clamped(ptr) == Some(IF ptr = <<>> THEN <<>> ELSE Tail(ptr))

\* <[T]>::get(1..): the rest of the slice; None when the range starts behind
\* the end of the slice, that is for the empty slice only
get_from_1(ptr) == IF 1 <= Len(ptr) THEN Some(Tail(ptr)) ELSE Nothing(<<>>)

\* Option::unwrap_or_default
unwrap_or_default(opt) == IF opt.some THEN opt.val ELSE <<>>

\* variant of vec_get: the index counts from one
vec_get_from_one(items, idx) == IF 1 <= idx /\ idx <= Len(items) THEN idx ELSE 0

\* Vec::get, HashMap::get: the position of the element, 0 for None
vec_get(items, idx) == IF idx + 1 <= Len(items) THEN idx + 1 ELSE 0
map_get(keys, key) ==
    IF \E i \in 1..Len(keys) : keys[i] = key
    THEN CHOOSE i \in 1..Len(keys) : keys[i] = key
    ELSE 0

\* fn get_typed_list: the element wrapped in the variant of its type
get_typed_list(list, idx) ==
    LET at == vec_get(list.raw, idx) IN
    IF at = 0 THEN Err("IndexOutOfBounds") ELSE Ok(Leaf(list.atom, list.raw[at]))

\* fn get_typed_dict
get_typed_dict(dict, key) ==
    LET at == map_get(dict.keys, key) IN
    IF at = 0 THEN Err("KeyNotFound") ELSE Ok(Leaf(dict.atom, dict.raw[at]))

RECURSIVE _get(_, _)
\* Value::_get, with fn get_list and fn get_dict unfolded in their arms
_get(self, ptr) ==
    LET index == first(ptr)
        rest == get_from_1(ptr)
    IN  CASE ~index.some /\ ~rest.some -> Ok(self)
          [] self.tag = "List" /\ index.some /\ index.val.kind = "Idx" ->
               LET at == vec_get(self.items, index.val.idx) IN
               IF at = 0 THEN Err("IndexOutOfBounds")
               ELSE _get(self.items[at], unwrap_or_default(rest))
          [] self.tag = "Dict" /\ index.some /\ index.val.kind = "Key" ->
               LET at == map_get(self.keys, index.val.key) IN
               IF at = 0 THEN Err("KeyNotFound")
               ELSE _get(self.items[at], unwrap_or_default(rest))
          [] self.tag = "TypedList" /\ index.some /\ index.val.kind = "Idx"
               /\ ~rest.some -> get_typed_list(self, index.val.idx)
          [] self.tag = "TypedDict" /\ index.some /\ index.val.kind = "Key"
               /\ ~rest.some -> get_typed_dict(self, index.val.key)
          [] self.tag = "TypedList" /\ index.some /\ index.val.kind = "Idx"
               /\ rest.some -> Err("TooMuchNesting")
          [] self.tag = "TypedDict" /\ index.some /\ index.val.kind = "Key"
               /\ rest.some -> Err("TooMuchNesting")
          [] self.tag = "List" /\ index.some /\ index.val.kind = "Key" ->
               Err("KeyForList")
          [] self.tag = "Dict" /\ index.some /\ index.val.kind = "Idx" ->
               Err("IndexForDict")
          [] self.tag = "TypedList" /\ index.some /\ index.val.kind = "Key" ->
               Err("KeyForList")
          [] self.tag = "TypedDict" /\ index.some /\ index.val.kind = "Idx" ->
               Err("IndexForDict")
          [] self.tag \in LeafTags /\ index.some -> Err("TooMuchNesting")
          [] ~index.some /\ rest.some -> Err("unreachable")

\* Value::get with a path string
get(self, path) == _get(self, from_str(path))

\* the characters a path string is made of
PathChars == {"0", "1", "k", "+", "/"}

\* the path strings
Paths == UNION {[1..n -> PathChars] : n \in 0..MaxPathLen}

\* the values get is applied to: a leaf of every variant, and collections
SampleLeaves == {Leaf(t, "x") : t \in LeafTags}

SampleValues ==
    SampleLeaves
    \cup { List(<<>>),
           List(<<Leaf("Int", "7"), Leaf("Str", "s")>>),
           List(<<List(<<Leaf("Bool", "t")>>),
                  Dict(<<<<"k">>>>, <<Leaf("Int", "7")>>)>>),
           List(<<TypedList("Int", <<"7", "8">>),
                  TypedDict("Str", <<<<"k">>>>, <<"s">>)>>),
           Dict(<<>>, <<>>),
           Dict(<<<<"k">>, <<>>>>, <<Leaf("Int", "7"), Leaf("Str", "s")>>),
           Dict(<<<<"k">>, <<"0">>>>,
                <<List(<<Leaf("Int", "7")>>),
                  Dict(<<<<"1">>>>, <<Leaf("Float", "f")>>)>>),
           Dict(<<<<"k">>>>, <<TypedList("Int", <<"7", "8">>)>>),
           TypedList("Int", <<>>),
           TypedList("Int", <<"7", "8">>),
           TypedDict("Str", <<>>, <<>>),
           TypedDict("Str", <<<<"k">>, <<>>>>, <<"s", "t">>) }

InitValue ==
    /\ InitSession
    /\ InitClient
    /\ fin \in [value : SampleValues, path : Paths]
    /\ fout = [step |-> "input", res |-> Err("none")]

\* value.get(path)
Get ==
    /\ fout.step = "input"
    /\ fout' = [step |-> "done", res |-> get(fin.value, fin.path)]
    /\ UNCHANGED <<pc, err, buffer, socket, closed, nclient, out, input, queue,
                   msg_rx, abort_slot, sender, wpc, cur, calls, ret, aborted>>
    /\ UNCHANGED <<cpc, cbuffer, can_read, cread, cret, csent, seen, taken, reads,
                   fin>>

NextValue == Get

SpecValue == InitValue /\ [][NextValue]_vars

\* C20 (as stated): get with the empty path string returns the value
\* unchanged, for every variant.
C20_EmptyPathIdentity ==
    (fout.step = "done" /\ fin.path = <<>>) => fout.res = Ok(fin.value)

(***************************************************************************)
(* What the claims about Value::get talk about.                            *)
(***************************************************************************)
\* get has been applied
Done == fout.step = "done"

\* the path string up to its first '/', and what follows that '/'
HasSlash(p) == \E i \in 1..Len(p) : p[i] = "/"
FirstSlash(p) == CHOOSE i \in 1..Len(p) : p[i] = "/" /\ \A j \in 1..(i - 1) : p[j] # "/"
FirstToken(p) == IF HasSlash(p) THEN SubSeq(p, 1, FirstSlash(p) - 1) ELSE p
RestPath(p) == SubSeq(p, FirstSlash(p) + 1, Len(p))

\* the first token is a number / is the key of an entry of the mapping
Numeric(p) == parse_usize(FirstToken(p)).ok
Number(p) == parse_usize(FirstToken(p)).val
HasKey(v, k) == \E j \in 1..Len(v.keys) : v.keys[j] = k
EntryAt(v, k) == CHOOSE j \in 1..Len(v.keys) : v.keys[j] = k

\* C21 (as stated): on a typed list or mapping a path of exactly one token of
\* the matching kind returns the element wrapped in the variant of its type,
\* IndexOutOfBounds past the end, KeyNotFound for an absent key.
C21_TypedOneToken ==
    (Done /\ ~HasSlash(fin.path)) =>
      /\ (fin.value.tag = "TypedList" /\ Numeric(fin.path)) =>
           fout.res = IF Number(fin.path) < Len(fin.value.raw)
                      THEN Ok(Leaf(fin.value.atom,
                                   fin.value.raw[Number(fin.path) + 1]))
                      ELSE Err("IndexOutOfBounds")
      /\ (fin.value.tag = "TypedDict" /\ ~Numeric(fin.path)) =>
           fout.res = IF HasKey(fin.value, fin.path)
                      THEN Ok(Leaf(fin.value.atom,
                                   fin.value.raw[EntryAt(fin.value, fin.path)]))
                      ELSE Err("KeyNotFound")

\* C22: a numeric token on a dynamic List past its end gives IndexOutOfBounds
\* and a key token on a dynamic Dict without that key gives KeyNotFound,
\* whatever follows; otherwise the result is that of get on the selected
\* element with the rest of the path (the element itself when the path ends).
C22_DynamicRecursion ==
    Done =>
      /\ (fin.value.tag = "List" /\ Numeric(fin.path)) =>
           fout.res = IF Number(fin.path) >= Len(fin.value.items)
                      THEN Err("IndexOutOfBounds")
                      ELSE IF HasSlash(fin.path)
                      THEN get(fin.value.items[Number(fin.path) + 1],
                               RestPath(fin.path))
                      ELSE Ok(fin.value.items[Number(fin.path) + 1])
      /\ (fin.value.tag = "Dict" /\ ~Numeric(fin.path)) =>
           fout.res = IF ~HasKey(fin.value, FirstToken(fin.path))
                      THEN Err("KeyNotFound")
                      ELSE IF HasSlash(fin.path)
                      THEN get(fin.value.items[EntryAt(fin.value,
                                                       FirstToken(fin.path))],
                               RestPath(fin.path))
                      ELSE Ok(fin.value.items[EntryAt(fin.value,
                                                      FirstToken(fin.path))])

\* a two-token path went through a List into a Dict and returned the leaf
C22_Witness ==
    /\ Done
    /\ fin.value.tag = "List"
    /\ fin.path = <<"1", "/", "k">>
    /\ fout.res = Ok(Leaf("Int", "7"))

\* where the claim expects TooMuchNesting: tokens left at a leaf, or a typed
\* collection reached with a token of its kind and one token more
RECURSIVE ExpectsTooMuchNesting(_, _)
ExpectsTooMuchNesting(v, tokens) ==
    IF tokens = <<>> THEN FALSE
    ELSE IF v.tag \in LeafTags THEN TRUE
    ELSE IF v.tag = "List"
    THEN /\ tokens[1].kind = "Idx"
         /\ tokens[1].idx < Len(v.items)
         /\ ExpectsTooMuchNesting(v.items[tokens[1].idx + 1], Tail(tokens))
    ELSE IF v.tag = "Dict"
    THEN /\ tokens[1].kind = "Key"
         /\ HasKey(v, tokens[1].key)
         /\ ExpectsTooMuchNesting(v.items[EntryAt(v, tokens[1].key)], Tail(tokens))
    ELSE IF v.tag = "TypedList"
    THEN tokens[1].kind = "Idx" /\ Len(tokens) >= 2
    ELSE tokens[1].kind = "Key" /\ Len(tokens) >= 2

\* C23 (as stated): get returns TooMuchNesting exactly when tokens are left at
\* a leaf or a typed collection is reached with a token of its kind followed
\* by one token more; never for a path that ends at an element of a typed
\* collection.
C23_TooMuchNestingExactly ==
    Done =>
      (fout.res.err = "TooMuchNesting"
         <=> ExpectsTooMuchNesting(fin.value, from_str(fin.path)))

\* C24: a numeric token on a Dict or TypedDict gives IndexForDict and a key
\* token on a List or TypedList gives KeyForList, whatever follows; a token is
\* numeric exactly when it parses as an unsigned integer, so the empty token
\* is a key.
C24_KindMismatch ==
    Done =>
      /\ (fin.value.tag \in {"Dict", "TypedDict"} /\ Numeric(fin.path)) =>
           fout.res = Err("IndexForDict")
      /\ (fin.value.tag \in {"List", "TypedList"} /\ ~Numeric(fin.path)) =>
           fout.res = Err("KeyForList")
      /\ LET elements == split(fin.path)
             tokens == from_str(fin.path)
         IN  /\ Len(tokens) = Len(elements)
             /\ \A i \in 1..Len(elements) :
                  /\ tokens[i].kind = "Idx" <=>
                       /\ elements[i] # <<>>
                       /\ \A j \in 1..Len(elements[i]) :
                            \/ IsDigit(elements[i][j])
                            \/ j = 1 /\ elements[i][j] = "+" /\ Len(elements[i]) > 1
                  /\ tokens[i].kind = "Key" => tokens[i].key = elements[i]
                  /\ elements[i] = <<>> => tokens[i] = Key(<<>>)

\* a numeric token met a typed mapping, with an empty token behind it
C24_Witness ==
    /\ Done
    /\ fin.value.tag = "TypedDict"
    /\ fin.path = <<"0", "/">>
    /\ fout.res = Err("IndexForDict")

(***************************************************************************)
(* Further claims about the session (specification Spec).                  *)
(***************************************************************************)
\* Receiver::abort has run in this session
AbortPosted == aborted.tool # "no"

\* the tool thread is still inside the tool function
ToolRunning == wpc \in {"running", "try_recv"}

\* the last frame the server wrote, decoded
LastObserved == Observed[Len(out)]

\* C25: cancellation is cooperative. After an abort is posted the handler
\* waits (in Receiver::abort or at the join) as long as the tool is running,
\* whether or not the tool calls send again, and a session that completes
\* after a posted abort has sent the Result the tool returned as its last
\* frame.
C25_Cooperative ==
    /\ (AbortPosted /\ ToolRunning) => pc \in {"abort", "join"}
    /\ (AbortPosted /\ pc = "done") =>
         /\ out # <<>>
         /\ LastObserved = Message("Result", ret)

\* an abort was posted while the tool ran, the tool made no further send and
\* returned Ok, and the Result(Ok) frame was sent
C25_Witness ==
    /\ pc = "done"
    /\ aborted.tool = "running"
    /\ Len(calls) = aborted.at
    /\ ret = <<"Ok", "out">>
    /\ LastObserved = Message("Result", <<"Ok", "out">>)

C27_NeverBusyPolls ==
    ~ /\ pc = "loop"
      /\ buffer # None \/ RecvReady
      /\ LET r == read_abort(buffer, socket) IN
         /\ r.res = "None"
         /\ r.buffer = buffer
         /\ r.socket = socket

\* C28: an error ends the session at once. The step that meets an error
\* writes no frame and leaves the handler returning that error, and no step
\* after it writes a frame or changes the error.
C28_ErrorEndsSession ==
    [][ /\ (err' # "none") => (out' = out /\ pc' \in {"unwind", "failed"})
        /\ (err # "none") => err' = err ]_vars

\* a parse error met in the loop ended a session that had already forwarded a
\* text and still had one queued
C28_Witness ==
    /\ pc = "failed"
    /\ err = "ParseError"
    /\ Len(out) >= 1
    /\ queue # <<>>
    /\ ResultFrames = {}

\* the reasons the tool's send calls returned
ReasonsReturned == {calls[i].ret : i \in 1..Len(calls)} \cap AbortReasons

\* C29 (as stated): when a send reported an abort and the tool returned the
\* 'aborted' error, the Result frame carries the reason send reported.
C29_ResultCarriesReason ==
    (pc = "done" /\ ret = <<"Err", "Abort">> /\ ReasonsReturned # {}) =>
        \E i \in ResultFrames :
            \E k \in 1..Len(Observed[i].payload) :
                Observed[i].payload[k] \in ReasonsReturned

\* C29 (amended): the Result frame is the encoding of what the tool returned,
\* Ok, the bare 'aborted' marker or a custom error; no AbortReason is part of
\* it, so the frame is the same whichever reason stopped the tool.
C29_ResultHidesReason ==
    \A i \in ResultFrames :
        /\ out[i] = to_ws(Message("Result", ret))
        /\ ret \in ToolResults
        /\ \A k \in 1..Len(Observed[i].payload) :
               Observed[i].payload[k] \notin AbortReasons

\* a send returned RequestedByClient, the tool returned 'aborted', and the
\* frame on the wire is the bare marker
C29_Witness ==
    /\ pc = "done"
    /\ "RequestedByClient" \in ReasonsReturned
    /\ LastObserved = Message("Result", <<"Err", "Abort">>)

AbortIsNext ==
    \/ buffer # None /\ buffer.kind = "Abort"
    \/ /\ buffer = None
       /\ socket # <<>>
       /\ Head(socket) # IoErr
       /\ try_from_ws(Head(socket)).err = "none"
       /\ try_from_ws(Head(socket)).msg.kind = "Abort"

\* C31: the Running loop is left in three ways only: the bridge reports the
\* Sender gone, which needs a finished tool and an empty queue; an Abort
\* message is read and the abort is posted with RequestedByClient; or an
\* error is returned. A step of the loop that puts a non-Abort message into
\* the slot posts nothing and stays in the loop.
C31_LoopExits ==
    [][ /\ (pc = "loop" /\ pc' # "loop") =>
             \/ /\ pc' = "join"
                /\ ~ToolRunning /\ ~sender /\ queue = <<>>
                /\ UNCHANGED <<abort_slot, aborted, err>>
             \/ /\ pc' = "abort"
                /\ AbortIsNext
                /\ aborted'.tool # "no"
                /\ sender => abort_slot' = "RequestedByClient"
                /\ err' = err
             \/ /\ pc' = "unwind"
                /\ err = "none" /\ err' # "none"
                /\ UNCHANGED <<abort_slot, aborted>>
        /\ (pc = "loop" /\ buffer = None /\ buffer' # None) =>
             /\ buffer'.kind # "Abort"
             /\ UNCHANGED <<pc, abort_slot, aborted, err, msg_rx>>
      ]_vars

\* the loop was left because the Sender was gone while a non-Abort message
\* sat in the slot; no abort was posted
C31_Witness ==
    /\ pc = "join"
    /\ ~AbortPosted
    /\ buffer # None
    /\ err = "none"

(***************************************************************************)
(* The client driver against an arbitrary peer: the frames call reads are  *)
(* any frames, not only those tool_handler writes. The peer is the server  *)
(* side of the session reduced to what the client can see of it: the       *)
(* frames it wrote (out) and whether it dropped the connection.            *)
(***************************************************************************)
\* the frames the peer may write
PeerFrames ==
    ServerFrames \cup { to_ws(Message("Result", <<"Err", "Custom">>)),
                        to_ws(Message("Abort", <<>>)) }

\* the peer writes one frame; nothing follows a Close frame
PeerFeed ==
    /\ pc = "read_values"
    /\ Len(out) < MaxServerFrames
    /\ \A i \in 1..Len(out) : out[i] # CloseFrame
    /\ \E f \in PeerFrames : out' = Append(out, f)
    /\ UNCHANGED <<pc, err, buffer, socket, closed, nclient, input, queue, msg_rx,
                   abort_slot, sender, wpc, cur, calls, ret, aborted>>
    /\ UNCHANGED offsession

\* the peer's handler returns and drops the connection (util.rs:27-30)
PeerDrop ==
    /\ pc = "read_values"
    /\ pc' = "failed"
    /\ err' = "ConnectionClosed"
    /\ UNCHANGED <<buffer, socket, closed, nclient, out, input, queue, msg_rx,
                   abort_slot, sender, wpc, cur, calls, ret, aborted>>
    /\ UNCHANGED offsession

NextDriver ==
    \/ PeerFeed
    \/ PeerDrop
    \/ CallSendValues
    \/ CallReadMessage
    \/ CallSendAbort
    \/ CallCloseAbort
    \/ CallReadResult
    \/ CallClose

SpecDriver == Init /\ [][NextDriver]_vars

\* the last frame the client wrote
LastSent == csent[Len(csent)]

C32_WitnessErr ==
    /\ cpc = "returned"
    /\ cret = <<"Err", "ToolReturnedError", "Custom">>
    /\ LastSent = CloseFrame

\* the next frame on the socket decodes to a message of this kind
HeadIs(kind) ==
    /\ socket # <<>>
    /\ Head(socket) # IoErr
    /\ try_from_ws(Head(socket)).err = "none"
    /\ try_from_ws(Head(socket)).msg.kind = kind

\* C33: completing one branch of the select and dropping the other loses and
\* duplicates nothing. A step that forwards an outbound message leaves the
\* slot and the socket as they are; a step that reads leaves the queue as it
\* is. A frame leaves the socket only into an empty slot, and then it is
\* stored there, handed over (the input, the Abort) or reported as an error;
\* a message leaves the queue only from its head, and then it is written to
\* the socket unless the write fails.
C33_CancelSafe ==
    [][ /\ (out' # out \/ (queue # <<>> /\ queue' = Tail(queue))) =>
             (buffer' = buffer /\ socket' = socket)
        /\ (buffer' # buffer \/ Len(socket') < Len(socket)) => queue' = queue
        /\ \/ socket' = socket
           \/ \E f \in ClientFrames : socket' = Append(socket, f)
           \/ /\ socket # <<>> /\ socket' = Tail(socket)
              /\ buffer = None
              /\ \/ (err' # "none" /\ buffer' = None)
                 \/ /\ HeadIs("Values") /\ pc = "read_values" /\ buffer' = None
                    /\ input' = try_from_ws(Head(socket)).msg.payload
                 \/ /\ HeadIs("Abort") /\ pc = "loop" /\ buffer' = None
                    /\ aborted'.tool # "no"
                 \/ /\ Head(socket) # IoErr
                    /\ try_from_ws(Head(socket)).err = "none"
                    /\ buffer' = try_from_ws(Head(socket)).msg
        /\ (buffer # None /\ buffer' # buffer) =>
             (buffer' = None /\ socket' = socket /\ buffer.kind = "Abort")
        /\ \/ queue' = queue
           \/ \E t \in {Text(i) : i \in 1..MaxSends} : queue' = Append(queue, t)
           \/ /\ queue # <<>> /\ queue' = Tail(queue)
              /\ \/ out' = Append(out, to_ws(Message("Message", <<Head(queue)>>)))
                 \/ err' # "none"
      ]_vars

\* in the loop a frame is held in the slot and another is still unread while
\* outbound messages were forwarded and one is still queued
C33_Witness ==
    /\ pc = "loop"
    /\ buffer # None
    /\ socket # <<>>
    /\ Len(out) >= 1
    /\ queue # <<>>

(***************************************************************************)
(* The session under fair scheduling. The handler is a tokio task that is  *)
(* polled whenever one of its futures is ready, and select! polls its      *)
(* branches in random order (util.rs:58, no `biased`), so a branch that    *)
(* stays ready is eventually taken; the tool thread, once inside           *)
(* Sender::send, runs on. Nothing is assumed about the client or about     *)
(* when the tool calls send or returns.                                     *)
(***************************************************************************)
SpecFair ==
    /\ Spec
    /\ WF_vars(RecvBranch)
    /\ WF_vars(AbortBranch)
    /\ WF_vars(AbortDrop)
    /\ WF_vars(Unwind)
    /\ WF_vars(Join)
    /\ WF_vars(SendResult)
    /\ WF_vars(ToolTryRecv)

\* the frame decodes to a message
WellFormed(f) == f # IoErr /\ try_from_ws(f).err = "none"

\* an Abort frame is on the socket behind well-formed frames only
AbortOnTheWay ==
    \E i \in 1..Len(socket) :
        /\ socket[i] = to_ws(Message("Abort", <<>>))
        /\ \A j \in 1..i : WellFormed(socket[j])

\* C34 (as stated): an Abort frame the client sent while the tool is running
\* and the connection is open leads to the abort being posted (unless the
\* tool finishes, the client closes or an error ends the session first),
\* whatever well-formed frames precede it.
C34_AbortDetected ==
    [](( pc = "loop" /\ AbortOnTheWay)
         => <>(AbortPosted \/ ~ToolRunning \/ closed \/ err # "none"))

\* a send call of the tool would block: the queue is full and the Receiver
\* is alive
SendWouldBlock == wpc = "running" /\ msg_rx /\ Len(queue) = Capacity

\* C36: a full queue never blocks the tool for ever: whenever a send would
\* block, the handler eventually dequeues a message or drops the Receiver,
\* and either lets send return.
C36_SendReturns == SendWouldBlock ~> ~SendWouldBlock

\* the queue is full while the abort is posted and the Receiver is not yet
\* dropped
C36_Witness ==
    /\ SendWouldBlock
    /\ pc = "abort"

\* C37: once the tool has returned, the session eventually writes the Result
\* frame or ends with an error, whether or not an abort was posted and
\* whatever the slot holds.
C37_ResultSent ==
    (wpc = "returned") ~> (ResultFrames # {} \/ err # "none")

\* the Result was written although a frame the client sent during Running is
\* still in the slot and texts were forwarded
C37_Witness ==
    /\ pc = "done"
    /\ ResultFrames # {}
    /\ buffer # None
    /\ Len(out) >= 2

\* the calls of Sender::send that began after the Receiver was dropped
\* return an error: a step of the tool that completes a call in one go
LateSend == wpc = "running" /\ ~msg_rx /\ calls' # calls

\* C35: when the handler is past the Running loop while the tool is still
\* running (it left by a posted abort or by an error, not by 'Sender gone'),
\* the Receiver is dropped, and every send call the tool begins from then on
\* returns an error and enqueues nothing.
C35_ToldToStop ==
    /\ []((ToolRunning /\ pc \notin {"read_values", "loop", "abort"}) => ~msg_rx)
    /\ [][LateSend =>
            /\ queue' = queue
            /\ Len(calls') = Len(calls) + 1
            /\ calls'[Len(calls')].ret \in AbortReasons
            /\ wpc' = "running"
         ]_vars

\* after a posted abort the tool called send again and was told to stop
C35_Witness ==
    /\ aborted.tool = "running"
    /\ Len(calls) > aborted.at
    /\ calls[Len(calls)].ret = "ChannelError"
    /\ pc = "join"

\* the protocol messages the client wrote, in order: its frames without the
\* Close frame of the closing handshake
ClientMessages ==
    LET data(f) == f # CloseFrame
        frames == SelectSeq(csent, data)
    IN  [i \in 1..Len(frames) |-> try_from_ws(frames[i]).msg]

\* C38: the frames on the wire respect the directions. Every frame the
\* server wrote is a TextMessage or a Result; the messages the client wrote
\* are Values first and then at most one Abort; after the Abort the client
\* writes nothing but the Close frame that ends the connection.
C38_Directions ==
    /\ \A i \in 1..Len(out) :
          /\ try_from_ws(out[i]).err = "none"
          /\ Observed[i].kind \in {"Message", "Result"}
    /\ IsPrefix(ClientMessages, <<Message("Values", CallInput), Message("Abort", <<>>)>>)
    /\ \A i \in 1..Len(csent) : \A j \in (i + 1)..Len(csent) :
          /\ csent[i] # CloseFrame
          /\ csent[i] = to_tung(Message("Abort", <<>>)) => csent[j] = CloseFrame

\* both directions were used: texts and a Result from the server, Values and
\* an Abort from the client
C38_Witness ==
    /\ Len(ClientMessages) = 2
    /\ ResultFrames # {}
    /\ \E i \in 1..Len(out) : Observed[i].kind = "Message"
    /\ cpc = "returned"

(***************************************************************************)
(* The two endpoints side by side: both are given the same frames followed *)
(* by the close of the connection, and both are read with the same         *)
(* requests.                                                               *)
(***************************************************************************)
MaxFed == 2

\* the frames fed before the close
FedFrames == PeerFrames \ {CloseFrame}

\* the streams fed: frames, then the Close frame, then the end of the stream
FedStreams ==
    {frames \o <<CloseFrame>> : frames \in UNION {[1..n -> FedFrames] : n \in 0..MaxFed}}

\* what a read call returned
Outcome(r) == [res |-> r.res, val |-> r.val]

InitContract ==
    /\ \E stream \in FedStreams : socket = stream /\ out = stream
    /\ closed = TRUE
    /\ pc = "read_values"
    /\ err = "none"
    /\ buffer = None
    /\ nclient = 0
    /\ input = <<>>
    /\ queue = <<>>
    /\ msg_rx = FALSE
    /\ abort_slot = "Empty"
    /\ sender = FALSE
    /\ wpc = "idle"
    /\ cur = ""
    /\ calls = <<>>
    /\ ret = <<>>
    /\ aborted = [tool |-> "no", at |-> 0]
    /\ InitClient
    /\ fin = <<>>
    /\ fout = [step |-> "input", kind |-> "",
               async |-> [res |-> "", val |-> <<>>],
               sync |-> [res |-> "", val |-> <<>>]]

\* the same read request on both endpoints (async.rs:57-79, sync.rs:64-86)
ReadBoth ==
    \E kind \in MessageKinds :
       LET a == read_expecting(kind, buffer, socket)
           s == sync_read_expecting(kind, cbuffer, Incoming, can_read)
       IN  /\ buffer' = a.buffer
           /\ socket' = a.socket
           /\ cbuffer' = s.buffer
           /\ can_read' = s.can_read
           /\ cread' = cread + (Len(Incoming) - Len(s.socket))
           /\ fout' = [step |-> "read", kind |-> kind,
                       async |-> Outcome(a), sync |-> Outcome(s)]
           /\ UNCHANGED <<pc, err, closed, nclient, out, input, queue, msg_rx,
                          abort_slot, sender, wpc, cur, calls, ret, aborted>>
           /\ UNCHANGED <<cpc, cret, csent, seen, taken, reads, fin>>

NextContract == ReadBoth

SpecContract == InitContract /\ [][NextContract]_vars

\* C39: given the same frames followed by the close and the same read
\* requests, the two endpoints return the same outcome to every call, hold
\* the same message in their slots after it and have read equally far.
C39_SameContract ==
    /\ fout.async = fout.sync
    /\ buffer = cbuffer
    /\ socket = Incoming

\* both endpoints have read two frames and the Close frame and report the
\* closed connection
C39_Witness ==
    /\ fout.step = "read"
    /\ fout.sync.res = "ConnectionClosed"
    /\ fout.async.res = "ConnectionClosed"
    /\ cread >= 3
    /\ ~can_read
    /\ socket = <<>>

\* the slices _get is called with for a pointer: the pointer and what is left
\* of it after each token, down to the empty slice
Slices(ptr) == {SubSeq(ptr, i, Len(ptr)) : i \in 1..(Len(ptr) + 1)}

\* the errors of ExtractionError that get returns
ExtractionErrors ==
    {"IndexOutOfBounds", "KeyNotFound", "TooMuchNesting", "KeyForList",
     "IndexForDict"}

\* C40: _get never reaches its unreachable!() arm: for every slice it is
\* called with, an absent first token comes with an absent rest, and get
\* returns a Value or one of the ExtractionErrors.
C40_NoPanic ==
    Done =>
      /\ fout.res.err # "unreachable"
      /\ fout.res.ok \/ fout.res.err \in ExtractionErrors
      /\ \A ptr \in Slices(from_str(fin.path)) :
            ~first(ptr).some => ~get_from_1(ptr).some

\* the recursion ran down to the empty slice and returned the element
C40_Witness ==
    /\ Done
    /\ fin.value.tag = "Dict"
    /\ Len(from_str(fin.path)) = 2
    /\ fout.res.ok

====
